---- MODULE Spec2Model ----
(***************************************************************************)
(* Model of the survey engine of onstage-survey-app:                       *)
(*   surveyData.js        (src/unnamed/part_002, lines 1-346)              *)
(*   conditionEvaluator.js (src/unnamed/part_003, lines 1-180)             *)
(*   questionRenderers.js  (src/unnamed/part_003, lines 182-1045)          *)
(*   surveyNavigation.js   (src/js/surveyNavigation.js)                    *)
(*   surveyWizard.js       (src/js/surveyWizard.js)                        *)
(* JavaScript strings are sequences of one-character strings, so that      *)
(* trim(), toString() and parseInt() are computed and not assumed.         *)
(***************************************************************************)
EXTENDS Integers, Sequences, FiniteSets, TLC

\* ------------------------------------------------------------------ bounds
\* Largest value of the clock read by new Date() in saveResponse.
MaxTime == 1

\* ------------------------------------------------------- JavaScript values
STR_EMPTY == <<>>
STR_BLANK == <<" ">>
STR_A == <<"a">>
STR_YES == <<"y", "e", "s">>
STR_NO == <<"n", "o">>
STR_C == <<"c">>

STR_5 == <<"5">>
STR_VALUE == <<"v", "a", "l", "u", "e">>
OPT_1 == <<"o", "1">>
OPT_2 == <<"o", "2">>

\* A response value: a string, an array of strings, null, or one of the two
\* objects the multi-value slider renderers save.  o lists the entries of a
\* position mapping {optionId: position} in insertion order.
StrV(s) == [t |-> "string", s |-> s, a |-> <<>>, o |-> <<>>]
ArrV(a) == [t |-> "array", s |-> STR_EMPTY, a |-> a, o |-> <<>>]
NullV == [t |-> "null", s |-> STR_EMPTY, a |-> <<>>, o |-> <<>>]
\* positions: what endDrag of surveyWizard.js saves.
PosV(entries) == [t |-> "positions", s |-> STR_EMPTY, a |-> <<>>, o |-> entries]
\* {value: {...positions}, comment: ''}: what saveResponse of
\* questionRenderersExtended.js saves.
WrappedV(entries) == [t |-> "wrapped", s |-> STR_EMPTY, a |-> <<>>, o |-> entries]
Entry(key, position) == [key |-> key, position |-> position]

WhiteSpace == {" "}

RECURSIVE TrimLeft(_)
TrimLeft(s) ==
  IF s = <<>> THEN <<>>
  ELSE IF Head(s) \in WhiteSpace THEN TrimLeft(Tail(s)) ELSE s

RECURSIVE TrimRight(_)
TrimRight(s) ==
  IF s = <<>> THEN <<>>
  ELSE IF s[Len(s)] \in WhiteSpace THEN TrimRight(SubSeq(s, 1, Len(s) - 1)) ELSE s

\* String.prototype.trim
trim(s) == TrimRight(TrimLeft(s))

DigitChars == <<"0", "1", "2", "3", "4", "5", "6", "7", "8", "9">>

\* Number.prototype.toString for the non-negative integers the index takes
RECURSIVE toString(_)
toString(n) ==
  IF n < 10 THEN <<DigitChars[n + 1]>>
  ELSE toString(n \div 10) \o <<DigitChars[(n % 10) + 1]>>

IsDigit(c) == \E d \in 1..10 : DigitChars[d] = c
DigitValue(c) == (CHOOSE d \in 1..10 : DigitChars[d] = c) - 1

RECURSIVE DigitPrefix(_)
DigitPrefix(s) ==
  IF s = <<>> THEN <<>>
  ELSE IF IsDigit(Head(s)) THEN <<Head(s)>> \o DigitPrefix(Tail(s)) ELSE <<>>

RECURSIVE DigitsToNat(_, _)
DigitsToNat(s, acc) ==
  IF s = <<>> THEN acc ELSE DigitsToNat(Tail(s), acc * 10 + DigitValue(Head(s)))

\* parseInt(s, 10): leading white space, an optional sign, then the longest
\* prefix of digits; NaN when there is no digit.
parseInt(s) ==
  LET t == TrimLeft(s)
      neg == t # <<>> /\ Head(t) = "-"
      signed == t # <<>> /\ Head(t) \in {"-", "+"}
      body == IF signed THEN Tail(t) ELSE t
      digits == DigitPrefix(body)
  IN IF digits = <<>> THEN [nan |-> TRUE, n |-> 0]
     ELSE [nan |-> FALSE,
           n |-> IF neg THEN 0 - DigitsToNat(digits, 0) ELSE DigitsToNat(digits, 0)]

\* ------------------------------------------------------ survey definitions
NoConditions == [present |-> FALSE, operator |-> "and", rules |-> <<>>]
Conditions(op, rules) == [present |-> TRUE, operator |-> op, rules |-> rules]
NoThreshold == [present |-> FALSE, n |-> 0]
Rule(qid, type, value) ==
  [questionId |-> qid, type |-> type, value |-> value,
   optionId |-> STR_EMPTY, threshold |-> NoThreshold]
\* A rule that names an option (topRanked, optionChecked).
OptionRule(qid, type, optionId) ==
  [Rule(qid, type, NullV) EXCEPT !.optionId = optionId]
\* A rule that compares with a threshold (greaterThan, lessThan).
ThresholdRule(qid, type, n) ==
  [Rule(qid, type, NullV) EXCEPT !.threshold = [present |-> TRUE, n |-> n]]
Question(id, required, conditions) ==
  [id |-> id, required |-> required, conditions |-> conditions]
Step(id, questions) == [id |-> id, questions |-> questions]

QuestionIds == <<"Q1", "Q2", "Q3">>

\* Q2 is shown only when Q1 was answered 'yes'.
Q2Conditions == Conditions("and", <<Rule("Q1", "equals", StrV(STR_YES))>>)

\* Three steps; the step at index 1 has the single required question Q1; the
\* last step has a conditional required question in front of a plain one.
SurveyA ==
  [id |-> "A", hasSteps |-> TRUE,
   steps |-> << Step("a0", <<>>),
                Step("a1", <<Question("Q1", TRUE, NoConditions)>>),
                Step("a2", <<Question("Q2", TRUE, Q2Conditions),
                             Question("Q3", TRUE, NoConditions)>>) >>]

\* Two steps; the conditional required question is on the first step, next
\* to the question it depends on.
SurveyB ==
  [id |-> "B", hasSteps |-> TRUE,
   steps |-> << Step("b0", <<Question("Q1", FALSE, NoConditions),
                             Question("Q2", TRUE, Q2Conditions)>>),
                Step("b1", <<Question("Q3", TRUE, NoConditions)>>) >>]

\* A JSON document that parses but has no steps member.
SurveyNoSteps == [id |-> "N", hasSteps |-> FALSE, steps |-> <<>>]

\* surveyState.definition before any load.
NullDefinition == [id |-> "null", hasSteps |-> FALSE, steps |-> <<>>]

\* What the transport can answer to fetch(surveyPath).
Source(ok, parses, body) == [ok |-> ok, parses |-> parses, body |-> body]
Sources ==
  << Source(TRUE, TRUE, SurveyA),
     Source(TRUE, TRUE, SurveyB),
     Source(TRUE, TRUE, SurveyNoSteps),
     Source(FALSE, TRUE, NullDefinition),
     Source(TRUE, FALSE, NullDefinition) >>

\* ------------------------------------------------------------------- state
VARIABLES
  definition,        \* surveyState.definition
  currentStepIndex,  \* surveyState.currentStepIndex
  responses,         \* surveyState.responses: question id -> response
  isLoaded,          \* surveyState.isLoaded
  localStorage,      \* the two slots of STORAGE_KEYS
  now,               \* the clock read by new Date()
  document,          \* the page: navigation controls and question elements
  initialized,       \* surveyWizard.js surveyState.initialized
  submission,        \* whether a dataService.saveUserData call is in flight
  submissionData,    \* the payload object of a submitSurvey() call (SpecSubmit)
  listeners,         \* the listeners that refresh the conditional questions
  input,             \* the text input of a rendered question and its timers
  ranking,           \* the list of a rendered ranking question during a drag
  last,              \* the most recent call and what it returned
  reloaded           \* the module state that the latest page reload discarded

engine == <<definition, currentStepIndex, responses, isLoaded, localStorage, now>>
page == <<document, initialized, submission>>
widgets == <<listeners, input, ranking>>
vars == <<definition, currentStepIndex, responses, isLoaded, localStorage, now,
          document, initialized, submission, submissionData, listeners, input,
          ranking, last, reloaded>>

\* The empty response map ({} in JavaScript).
EmptyResponses == [q \in {} |-> NullV]

\* A comment argument of saveResponse: null (also the default) or a string.
NullC == [isNull |-> TRUE, s |-> STR_EMPTY]
StrC(s) == [isNull |-> FALSE, s |-> s]

Range(f) == {f[i] : i \in DOMAIN f}

\* ---------------------------------------------------------- local storage
AbsentSlot == [present |-> FALSE, wellFormed |-> TRUE, text |-> <<>>]
TextSlot(text) == [present |-> TRUE, wellFormed |-> TRUE, text |-> text]
\* A responses slot whose text JSON.parse rejects.
CorruptSlot == [present |-> TRUE, wellFormed |-> FALSE, text |-> <<>>]

\* JSON.stringify(surveyState.responses): one member per question that has
\* a response; each response object lists value, timestamp and, only when it
\* was set, comment.
JSONstringifyResponse(q, r) ==
  [key |-> q,
   members |-> IF r.hasComment THEN <<"value", "timestamp", "comment">>
               ELSE <<"value", "timestamp">>,
   value |-> r.value,
   timestamp |-> r.timestamp,
   comment |-> IF r.hasComment THEN r.comment ELSE STR_EMPTY]

RECURSIVE JSONstringifyFrom(_, _)
JSONstringifyFrom(resp, i) ==
  IF i > Len(QuestionIds) THEN <<>>
  ELSE IF QuestionIds[i] \in DOMAIN resp
       THEN <<JSONstringifyResponse(QuestionIds[i], resp[QuestionIds[i]])>>
            \o JSONstringifyFrom(resp, i + 1)
       ELSE JSONstringifyFrom(resp, i + 1)

JSONstringify(resp) == JSONstringifyFrom(resp, 1)

\* JSON.parse of a well-formed responses text.
JSONparse(text) ==
  [q \in {text[i].key : i \in DOMAIN text} |->
     LET e == text[CHOOSE i \in DOMAIN text : text[i].key = q]
     IN [value |-> e.value,
         timestamp |-> e.timestamp,
         hasComment |-> "comment" \in Range(e.members),
         comment |-> IF "comment" \in Range(e.members) THEN e.comment ELSE STR_EMPTY]]

\* saveProgress() without its second setItem call.
saveProgressStepOnly(index, resp) ==
  [localStorage EXCEPT !.currentStep = TextSlot(toString(index))]

\* saveProgress(): both setItem calls.
saveProgress(index, resp) ==
  [currentStep |-> TextSlot(toString(index)),
   responses |-> TextSlot(JSONstringify(resp))]

\* restoreProgress(): the state it leaves, given the definition just stored.
\* Reading steps.length of a definition without steps throws inside the try
\* block, which skips the restore of the responses.
restoreProgress(def, index, resp, storage) ==
  LET savedStep == storage.currentStep
      stepIndex == parseInt(savedStep.text)
      reachesLength == savedStep.present /\ ~stepIndex.nan /\ stepIndex.n >= 0
      threwOnSteps == reachesLength /\ ~def.hasSteps
      adopted == reachesLength /\ def.hasSteps /\ stepIndex.n < Len(def.steps)
      savedResponses == storage.responses
      parsed == ~threwOnSteps /\ savedResponses.present /\ savedResponses.wellFormed
  IN [currentStepIndex |-> IF adopted THEN stepIndex.n ELSE index,
      responses |-> IF parsed THEN JSONparse(savedResponses.text) ELSE resp,
      reassigned |-> parsed]     \* surveyState.responses is a new object

\* --------------------------------------------------- conditionEvaluator.js
\* parseFloat(v): the value is converted to a string first; an array becomes
\* its elements joined by commas, null and plain objects have no digits.
parseFloat(v) ==
  IF v.t = "string" THEN parseInt(v.s)
  ELSE IF v.t = "array" /\ v.a # <<>> THEN parseInt(v.a[1])
  ELSE [nan |-> TRUE, n |-> 0]

\* positions.sort((a, b) => b[1] - a[1])[0][0]: the sort is stable, so among
\* the entries with the largest position the first inserted comes first.
TopKey(entries) ==
  LET top == {i \in DOMAIN entries :
                \A j \in DOMAIN entries : entries[j].position <= entries[i].position}
  IN entries[CHOOSE i \in top : \A j \in top : i <= j].key

\* evaluateCondition(condition) against a response map: "true", "false", or
\* "threw" where the code dereferences null.
evaluateCondition(condition, resp) ==
  LET has == condition.questionId \in DOMAIN resp
      responseValue == IF has THEN resp[condition.questionId].value ELSE NullV
      type == condition.type
      Bool(b) == IF b THEN "true" ELSE "false"
  IN IF ~has /\ type # "answered" THEN "false"
     ELSE IF type = "answered"
     THEN Bool(has /\ responseValue.t # "null"
               /\ (responseValue.t # "string" \/ trim(responseValue.s) # STR_EMPTY))
     ELSE IF type = "equals"
     THEN IF responseValue.t = "null" THEN "threw"    \* null.isOther
          ELSE Bool(responseValue.t = "string" /\ condition.value.t = "string"
                    /\ responseValue.s = condition.value.s)
     ELSE IF type = "notEquals"
     THEN Bool(~(responseValue.t = condition.value.t
                 /\ responseValue.t \in {"string", "null"}
                 /\ responseValue.s = condition.value.s))
     ELSE IF type = "contains"
     THEN IF responseValue.t = "array"
          THEN Bool(condition.value.t = "string"
                    /\ \E i \in DOMAIN responseValue.a :
                         responseValue.a[i] = condition.value.s)
          ELSE IF responseValue.t = "positions"
          THEN Bool(condition.value.t = "string"
                    /\ \E i \in DOMAIN responseValue.o :
                         /\ responseValue.o[i].key = condition.value.s
                         /\ responseValue.o[i].position # 0)
          ELSE IF responseValue.t = "wrapped"     \* keys value and comment ('')
          THEN Bool(condition.value.t = "string" /\ condition.value.s = STR_VALUE)
          ELSE "false"
     ELSE IF type \in {"greaterThan", "lessThan"}
     THEN IF ~condition.threshold.present THEN "false"
          ELSE LET numValue == parseFloat(responseValue)
               IN Bool(~numValue.nan
                       /\ IF type = "greaterThan"
                          THEN numValue.n > condition.threshold.n
                          ELSE numValue.n < condition.threshold.n)
     ELSE IF type = "topRanked"
     THEN IF condition.optionId = STR_EMPTY THEN "false"
          ELSE IF responseValue.t = "null" THEN "threw"    \* null.value
          ELSE IF responseValue.t # "wrapped" THEN "false" \* .value is undefined
          ELSE IF Len(responseValue.o) = 0 THEN "false"
          ELSE Bool(TopKey(responseValue.o) = condition.optionId)
     ELSE IF type = "optionChecked"
     THEN IF condition.optionId = STR_EMPTY THEN "false"
          ELSE IF responseValue.t = "string" /\ responseValue.s # STR_EMPTY
          THEN Bool(responseValue.s = condition.optionId)
          ELSE "false"     \* no saved object has an own property equal to true
     ELSE "false"

\* results.map(...) stops at the first rule that throws.
RuleResults(rules, resp) == [i \in DOMAIN rules |-> evaluateCondition(rules[i], resp)]

shouldShowQuestion(question, resp) ==
  IF ~question.conditions.present \/ question.conditions.rules = <<>> THEN "true"
  ELSE LET results == RuleResults(question.conditions.rules, resp)
           operator == question.conditions.operator
       IN IF \E i \in DOMAIN results : results[i] = "threw" THEN "threw"
          ELSE IF operator = "and"
          THEN IF \A i \in DOMAIN results : results[i] = "true" THEN "true" ELSE "false"
          ELSE IF operator = "or"
          THEN IF \E i \in DOMAIN results : results[i] = "true" THEN "true" ELSE "false"
          ELSE "true"

\* ------------------------------------------------- steps and their questions
\* getStepByIndex(index) is not null.
hasStepAt(def, loaded, index) ==
  loaded /\ def.hasSteps /\ index >= 0 /\ index < Len(def.steps)

\* getCurrentStep().questions, empty when there is no current step.
currentQuestions(def, loaded, index) ==
  IF hasStepAt(def, loaded, index) THEN def.steps[index + 1].questions ELSE <<>>

QuestionIdsOf(questions) == {questions[i].id : i \in DOMAIN questions}

\* The test of validateCurrentStep and areAllRequiredQuestionsAnswered that a
\* required question fails.
isUnanswered(resp, questionId) ==
  \/ questionId \notin DOMAIN resp
  \/ resp[questionId].value.t = "null"
  \/ resp[questionId].value.t = "array" /\ Len(resp[questionId].value.a) = 0
  \/ resp[questionId].value.t = "string" /\ trim(resp[questionId].value.s) = STR_EMPTY

\* hasVisitedStep(index), given surveyState.currentStepIndex.
hasVisitedStep(index, current) == index <= current

\* getStepById(stepId): the position of the step in steps, 0 for null.
getStepById(def, loaded, stepId) ==
  IF ~loaded \/ ~def.hasSteps THEN 0
  ELSE LET found == {i \in DOMAIN def.steps : def.steps[i].id = stepId}
       IN IF found = {} THEN 0 ELSE CHOOSE i \in found : \A j \in found : i <= j

\* areAllRequiredQuestionsAnswered(stepId)
areAllRequiredQuestionsAnswered(def, loaded, stepId, resp) ==
  LET step == getStepById(def, loaded, stepId)
  IN IF step = 0 THEN TRUE
     ELSE \A i \in DOMAIN def.steps[step].questions :
            def.steps[step].questions[i].required
              => ~( \/ def.steps[step].questions[i].id \notin DOMAIN resp
                    \/ resp[def.steps[step].questions[i].id].value.t = "null"
                    \/ /\ resp[def.steps[step].questions[i].id].value.t = "array"
                       /\ Len(resp[def.steps[step].questions[i].id].value.a) = 0
                    \/ /\ resp[def.steps[step].questions[i].id].value.t = "string"
                       /\ trim(resp[def.steps[step].questions[i].id].value.s) = STR_EMPTY )

\* validateCurrentStep() with the filter on required inverted.
firstInvalidOptional(questions, resp) ==
  LET failing == {i \in DOMAIN questions :
                    ~questions[i].required /\ isUnanswered(resp, questions[i].id)}
  IN IF failing = {} THEN 0
     ELSE CHOOSE i \in failing : \A j \in failing : i <= j

\* validateCurrentStep(): the position of the first required question that
\* fails, 0 when the step is valid.
firstInvalid(questions, resp) ==
  LET failing == {i \in DOMAIN questions :
                    questions[i].required /\ isUnanswered(resp, questions[i].id)}
  IN IF failing = {} THEN 0
     ELSE CHOOSE i \in failing : \A j \in failing : i <= j

validateCurrentStep(def, loaded, index, resp) ==
  firstInvalid(currentQuestions(def, loaded, index), resp) = 0

\* ---------------------------------------------------------------- the page
NoElements == [q \in {} |-> "shown"]

\* The page before initNavigation: no controls, nothing rendered.
EmptyDocument ==
  [controls |-> FALSE,        \* createNavigationControls has run
   rendered |-> -1,           \* index of the step whose questions are rendered
   questions |-> NoElements,  \* question elements: "shown" or "hidden" (display none)
   errors |-> {},             \* question elements with class validation-error
   prevDisabled |-> FALSE,
   nextShown |-> TRUE,        \* Next displayed; otherwise Submit is displayed
   submitDisabled |-> FALSE,
   message |-> "none"]        \* "success" or "error" after a submission

\* renderQuestionsForStep(step, container): every question of the step gets an
\* element; the ones shouldShowQuestion rejects get display none.
renderQuestionsForStep(questions, resp) ==
  [q \in QuestionIdsOf(questions) |->
     LET question == questions[CHOOSE i \in DOMAIN questions : questions[i].id = q]
     IN IF shouldShowQuestion(question, resp) = "true" THEN "shown" ELSE "hidden"]

\* loadCurrentStep(): render the current step, then updateNavigationButtons.
loadCurrentStep(doc, def, loaded, index, resp) ==
  IF ~hasStepAt(def, loaded, index) THEN doc
  ELSE [doc EXCEPT
          !.rendered = index,
          !.questions = renderQuestionsForStep(def.steps[index + 1].questions, resp),
          !.errors = {},
          !.prevDisabled = ~(index > 0),
          !.nextShown = index < Len(def.steps) - 1]

\* The question ids whose answers the conditional questions of a step read.
dependentQuestionIds(questions) ==
  UNION { {questions[i].conditions.rules[j].questionId :
             j \in DOMAIN questions[i].conditions.rules} :
          i \in {k \in DOMAIN questions : questions[k].conditions.present} }

\* refreshConditionalQuestions(step, container): a conditional question that
\* should show is rendered or displayed, one that should not is removed.
refreshConditionalQuestions(doc, questions, resp) ==
  LET conditional == {questions[i].id : i \in {k \in DOMAIN questions :
                                               questions[k].conditions.present}}
      shows(q) == shouldShowQuestion(
                    questions[CHOOSE i \in DOMAIN questions : questions[i].id = q],
                    resp) = "true"
      removed == {q \in conditional \cap DOMAIN doc.questions : ~shows(q)}
      added == {q \in conditional : shows(q)}
  IN [doc EXCEPT
        !.questions = [q \in (DOMAIN doc.questions \ removed) \cup added |->
                         IF q \in added THEN "shown" ELSE doc.questions[q]],
        !.errors = doc.errors \ removed]

\* validateCurrentStep() marks the element of the first failing question, if
\* the page has one.
markInvalid(doc, questions, resp) ==
  LET i == firstInvalid(questions, resp)
  IN IF i # 0 /\ questions[i].id \in DOMAIN doc.questions
     THEN [doc EXCEPT !.errors = doc.errors \cup {questions[i].id}]
     ELSE doc

clearValidationErrors(doc) == [doc EXCEPT !.errors = {}]

\* ------------------------------------------------------------------- Init
Called(op, arg, result) == [op |-> op, arg |-> arg, result |-> result]

NotReloaded ==
  [fresh |-> FALSE, id |-> "null", index |-> 0, responses |-> EmptyResponses]

\* No payload: submitSurvey() has not been called, or has thrown.
NoSubmission ==
  [calls |-> 0,                    \* calls of dataService.saveUserData it made
   aliased |-> FALSE,              \* payload.responses is surveyState.responses
   responses |-> EmptyResponses,   \* what payload.responses shows
   snapshot |-> EmptyResponses]    \* surveyState.responses when it was called

\* submissionData.responses after surveyState.responses[questionId] = {...}:
\* the assignment writes into the object that the payload refers to.
payloadAfterSave(resp) ==
  IF submissionData.aliased THEN [submissionData EXCEPT !.responses = resp]
  ELSE submissionData

\* submissionData after surveyState.responses = ...: the payload keeps the
\* object it was built with.
payloadAfterAssign == [submissionData EXCEPT !.aliased = FALSE]

\* No step rendered: no listener registered.
NoListeners == [document |-> 0, blur |-> 0, input |-> 0]

\* No text input rendered.
NoInput == [value |-> STR_EMPTY, timeouts |-> 0]

\* No ranking question rendered.
NoRanking ==
  [children |-> <<>>,        \* the child elements of the rank list, in order
   rank |-> <<>>,            \* the data-rank attribute of each item
   draggedItem |-> 0,        \* the item being dragged, 0 for null
   placeholder |-> FALSE,    \* the placeholder element exists
   dropped |-> FALSE]        \* the drag has seen its drop event

Init ==
  /\ definition = NullDefinition
  /\ currentStepIndex = 0
  /\ responses = EmptyResponses
  /\ isLoaded = FALSE
  /\ localStorage = [currentStep |-> AbsentSlot, responses |-> AbsentSlot]
  /\ now = 0
  /\ document = EmptyDocument
  /\ initialized = FALSE
  /\ submission = FALSE
  /\ submissionData = NoSubmission
  /\ listeners = NoListeners
  /\ input = NoInput
  /\ ranking = NoRanking
  /\ last = Called("init", 0, "none")
  /\ reloaded = NotReloaded

\* ------------------------------------------------------------ surveyData.js
\* Whether loadSurveyDefinition resolves for what the transport answers: it
\* throws on !response.ok and when response.json() rejects.
loadResolves(src) == src.ok /\ src.parses

\* The body of loadSurveyDefinition(surveyPath) once the fetch has answered.
loadEffect(k) ==
  LET src == Sources[k]
      restored == restoreProgress(src.body, currentStepIndex, responses, localStorage)
  IN IF ~loadResolves(src)
     THEN UNCHANGED <<definition, currentStepIndex, responses, isLoaded,
                      localStorage, now, submissionData, reloaded>>
     ELSE /\ definition' = src.body
          /\ isLoaded' = TRUE
          /\ currentStepIndex' = restored.currentStepIndex
          /\ responses' = restored.responses
          /\ submissionData' = IF restored.reassigned THEN payloadAfterAssign
                                ELSE submissionData
          /\ reloaded' = NotReloaded
          /\ UNCHANGED <<localStorage, now>>

loadSurveyDefinition(k) ==
  /\ loadEffect(k)
  /\ last' = Called("loadSurveyDefinition", k,
                    IF loadResolves(Sources[k]) THEN "resolved" ELSE "rejected")
  /\ UNCHANGED <<page, widgets>>

\* What goToStep(index) returns ("threw": reading steps.length of undefined).
goToStepResult(index) ==
  IF ~isLoaded \/ index < 0 THEN "false"
  ELSE IF ~definition.hasSteps THEN "threw"
  ELSE IF index >= Len(definition.steps) THEN "false"
  ELSE "true"

goToStepEffect(index) ==
  /\ IF goToStepResult(index) = "true"
     THEN /\ currentStepIndex' = index
          /\ localStorage' = saveProgress(index, responses)
     ELSE UNCHANGED <<currentStepIndex, localStorage>>
  /\ UNCHANGED <<definition, responses, isLoaded, now>>

goToStep(index) ==
  /\ goToStepEffect(index)
  /\ last' = Called("goToStep", index, goToStepResult(index))
  /\ UNCHANGED <<page, submissionData, widgets, reloaded>>

nextStep ==
  /\ goToStepEffect(currentStepIndex + 1)
  /\ last' = Called("nextStep", currentStepIndex + 1, goToStepResult(currentStepIndex + 1))
  /\ UNCHANGED <<page, submissionData, widgets, reloaded>>

prevStep ==
  /\ goToStepEffect(currentStepIndex - 1)
  /\ last' = Called("prevStep", currentStepIndex - 1, goToStepResult(currentStepIndex - 1))
  /\ UNCHANGED <<page, submissionData, widgets, reloaded>>

\* The response object of a saveResponse that tests the comment for null only.
NewResponseAnyComment(value, comment) ==
  [value |-> value,
   timestamp |-> now,
   hasComment |-> ~comment.isNull,
   comment |-> IF ~comment.isNull THEN comment.s ELSE STR_EMPTY]

\* The response object saveResponse builds.
NewResponse(value, comment) ==
  [value |-> value,
   timestamp |-> now,
   hasComment |-> ~comment.isNull /\ trim(comment.s) # STR_EMPTY,
   comment |-> IF ~comment.isNull /\ trim(comment.s) # STR_EMPTY
               THEN comment.s ELSE STR_EMPTY]

\* An assignment that merges the new object into the one already stored.
StoredMerged(resp, questionId, r) ==
  [q \in DOMAIN resp \cup {questionId} |->
     IF q # questionId THEN resp[q]
     ELSE IF questionId \in DOMAIN resp /\ resp[q].hasComment /\ ~r.hasComment
     THEN [r EXCEPT !.hasComment = TRUE, !.comment = resp[q].comment]
     ELSE r]

\* surveyState.responses[questionId] = {...}: the object replaces what was there.
Stored(resp, questionId, r) ==
  [q \in DOMAIN resp \cup {questionId} |-> IF q = questionId THEN r ELSE resp[q]]

\* saveResponse without its test of isLoaded.
saveResponseEffectUnguarded(questionId, value, comment) ==
  /\ responses' = Stored(responses, questionId, NewResponse(value, comment))
  /\ submissionData' = payloadAfterSave(responses')
  /\ localStorage' = saveProgress(currentStepIndex, responses')
  /\ UNCHANGED <<definition, currentStepIndex, isLoaded, now>>

saveResponseEffect(questionId, value, comment) ==
  IF ~isLoaded
  THEN UNCHANGED <<definition, currentStepIndex, responses, isLoaded, localStorage,
                   now, submissionData>>
  ELSE /\ responses' = Stored(responses, questionId, NewResponse(value, comment))
       /\ submissionData' = payloadAfterSave(responses')
       /\ localStorage' = saveProgress(currentStepIndex, responses')
       /\ UNCHANGED <<definition, currentStepIndex, isLoaded, now>>

saveResponse(questionId, value, comment) ==
  /\ saveResponseEffect(questionId, value, comment)
  /\ last' = Called("saveResponse", 0, IF isLoaded THEN "true" ELSE "false")
  /\ UNCHANGED <<page, widgets, reloaded>>

\* getResponse(questionId): the stored object, or null.
getResponse(resp, questionId) ==
  IF questionId \in DOMAIN resp
  THEN [isNull |-> FALSE, response |-> resp[questionId]]
  ELSE [isNull |-> TRUE, response |-> NewResponse(NullV, NullC)]

\* clearResponses without the reset of the step index.
clearResponsesKeepStep ==
  /\ responses' = EmptyResponses
  /\ submissionData' = payloadAfterAssign
  /\ localStorage' = saveProgress(currentStepIndex, EmptyResponses)
  /\ UNCHANGED <<definition, currentStepIndex, isLoaded, now>>

clearResponsesEffect ==
  /\ responses' = EmptyResponses
  /\ submissionData' = payloadAfterAssign
  /\ currentStepIndex' = 0
  /\ localStorage' = saveProgress(0, EmptyResponses)
  /\ UNCHANGED <<definition, isLoaded, now>>

clearResponses ==
  /\ clearResponsesEffect
  /\ last' = Called("clearResponses", 0, "none")
  /\ UNCHANGED <<page, widgets, reloaded>>

\* ------------------------------------------------------------- environment
\* Time passes.
Tick ==
  /\ now < MaxTime
  /\ now' = now + 1
  /\ last' = Called("tick", 0, "none")
  /\ UNCHANGED <<definition, currentStepIndex, responses, isLoaded, localStorage,
                 page, submissionData, widgets, reloaded>>

\* The page is reloaded: the module state is initialised again (surveyData.js
\* lines 20-25) and the page is empty; local storage survives.  A submission
\* still in flight dies with the page.
Reload ==
  /\ definition' = NullDefinition
  /\ currentStepIndex' = 0
  /\ responses' = EmptyResponses
  /\ isLoaded' = FALSE
  /\ document' = EmptyDocument
  /\ initialized' = FALSE
  /\ submission' = FALSE
  /\ submissionData' = NoSubmission
  /\ listeners' = NoListeners
  /\ input' = NoInput
  /\ ranking' = NoRanking
  /\ reloaded' = [fresh |-> TRUE, id |-> definition.id,
                  index |-> currentStepIndex, responses |-> responses]
  /\ last' = Called("reload", 0, "none")
  /\ UNCHANGED <<localStorage, now>>

\* Something other than this page writes or removes a slot.
ForeignStepTexts == { <<"x">>, <<"9">>, <<"-", "1">> }

StorageChanged ==
  /\ \/ \E t \in ForeignStepTexts :
          localStorage' = [localStorage EXCEPT !.currentStep = TextSlot(t)]
     \/ localStorage' = [localStorage EXCEPT !.currentStep = AbsentSlot]
     \/ localStorage' = [localStorage EXCEPT !.responses = CorruptSlot]
     \/ localStorage' = [localStorage EXCEPT !.responses = AbsentSlot]
  /\ last' = Called("storage", 0, "none")
  /\ UNCHANGED <<definition, currentStepIndex, responses, isLoaded, now,
                 page, submissionData, widgets, reloaded>>

\* ------------------------------------------------------------------ inputs
StepIndexes == -1 .. 3

\* The arguments saveResponse is called with: question id, value, comment.
SaveInputs ==
  { <<"Q1", StrV(STR_A), NullC>>,
    <<"Q1", StrV(STR_A), StrC(STR_C)>>,
    <<"Q1", StrV(STR_YES), NullC>>,
    <<"Q1", StrV(STR_EMPTY), StrC(STR_BLANK)>>,
    <<"Q2", StrV(STR_A), NullC>> }

\* The engine driven through its exported functions.
Next ==
  \/ \E k \in DOMAIN Sources : loadSurveyDefinition(k)
  \/ \E index \in StepIndexes : goToStep(index)
  \/ nextStep
  \/ prevStep
  \/ \E in \in SaveInputs : saveResponse(in[1], in[2], in[3])
  \/ clearResponses
  \/ Tick
  \/ Reload
  \/ StorageChanged

Spec == Init /\ [][Next]_vars

\* ------------------------------------------------ a storage that rejects
\* saveProgress() when a setItem call throws (quota exceeded, storage
\* disabled): the try block is left at the call that throws (failAt 1: the
\* write of the step, 2: the write of the responses) and the catch block logs.
saveProgressSetItemThrows(failAt, index) ==
  IF failAt = 1 THEN localStorage
  ELSE [localStorage EXCEPT !.currentStep = TextSlot(toString(index))]

\* A saveProgress() that lets the error of setItem escape to its caller.
saveProgressRethrows(result, failAt) == IF failAt # 0 THEN "threw" ELSE result

\* What the caller of saveProgress() returns after it: saveProgress has caught
\* what setItem threw, so the caller runs to its return statement.
afterSaveProgress(result, failAt) == result

FailingCalls == 1 .. 2

goToStepSetItemThrows(index, failAt) ==
  /\ goToStepResult(index) = "true"
  /\ currentStepIndex' = index
  /\ localStorage' = saveProgressSetItemThrows(failAt, index)
  /\ last' = Called("goToStep", index, afterSaveProgress("true", failAt))
  /\ UNCHANGED <<definition, responses, isLoaded, now, page, submissionData,
                 widgets, reloaded>>

saveResponseSetItemThrows(questionId, value, comment, failAt) ==
  /\ isLoaded
  /\ responses' = Stored(responses, questionId, NewResponse(value, comment))
  /\ submissionData' = payloadAfterSave(responses')
  /\ localStorage' = saveProgressSetItemThrows(failAt, currentStepIndex)
  /\ last' = Called("saveResponse", 0, afterSaveProgress("true", failAt))
  /\ UNCHANGED <<definition, currentStepIndex, isLoaded, now, page, widgets, reloaded>>

clearResponsesSetItemThrows(failAt) ==
  /\ responses' = EmptyResponses
  /\ currentStepIndex' = 0
  /\ submissionData' = payloadAfterAssign
  /\ localStorage' = saveProgressSetItemThrows(failAt, 0)
  /\ last' = Called("clearResponses", 0, afterSaveProgress("none", failAt))
  /\ UNCHANGED <<definition, isLoaded, now, page, widgets, reloaded>>

\* The engine on a storage whose writes may fail at any call.
NextStorageFails ==
  \/ \E k \in 1 .. 2 : loadSurveyDefinition(k)
  \/ \E index \in StepIndexes : goToStep(index)
  \/ \E in \in SaveInputs : saveResponse(in[1], in[2], in[3])
  \/ clearResponses
  \/ \E index \in StepIndexes, failAt \in FailingCalls :
       goToStepSetItemThrows(index, failAt)
  \/ \E in \in SaveInputs, failAt \in FailingCalls :
       saveResponseSetItemThrows(in[1], in[2], in[3], failAt)
  \/ \E failAt \in FailingCalls : clearResponsesSetItemThrows(failAt)
  \/ Reload

SpecStorageFails == Init /\ [][NextStorageFails]_vars

\* ------------------------------------- surveyWizard.js, surveyNavigation.js
\* initSurveyWizard(surveyPath), once per page: load the definition, then
\* initNavigation.  populatePaginationCircles throws on a definition without
\* steps, after the controls were created and before the first step is loaded.
initSurveyWizard(k) ==
  /\ ~document.controls
  /\ loadEffect(k)
  /\ IF ~loadResolves(Sources[k])
     THEN /\ last' = Called("initSurveyWizard", k, "false")
          /\ UNCHANGED <<document, initialized>>
     ELSE IF ~definition'.hasSteps
     THEN /\ document' = [document EXCEPT !.controls = TRUE]
          /\ last' = Called("initSurveyWizard", k, "false")
          /\ UNCHANGED initialized
     ELSE /\ document' = loadCurrentStep([document EXCEPT !.controls = TRUE],
                                         definition', isLoaded', currentStepIndex',
                                         responses')
          /\ initialized' = TRUE
          /\ last' = Called("initSurveyWizard", k, "true")
  /\ UNCHANGED <<submission, widgets>>

\* handleNextStep(): click on the Next button.
handleNextStep ==
  /\ document.controls /\ document.nextShown
  /\ IF ~validateCurrentStep(definition, isLoaded, currentStepIndex, responses)
     THEN /\ document' = markInvalid(document,
                           currentQuestions(definition, isLoaded, currentStepIndex),
                           responses)
          /\ last' = Called("handleNextStep", currentStepIndex + 1, "invalid")
          /\ UNCHANGED engine
     ELSE /\ goToStepEffect(currentStepIndex + 1)
          /\ document' =
               IF goToStepResult(currentStepIndex + 1) = "true"
               THEN loadCurrentStep(clearValidationErrors(document), definition,
                                    isLoaded, currentStepIndex', responses)
               ELSE clearValidationErrors(document)
          /\ last' = Called("handleNextStep", currentStepIndex + 1,
                            goToStepResult(currentStepIndex + 1))
  /\ UNCHANGED <<initialized, submission, submissionData, widgets, reloaded>>

\* handlePrevStep(): click on the Previous button.
handlePrevStep ==
  /\ document.controls /\ ~document.prevDisabled
  /\ goToStepEffect(currentStepIndex - 1)
  /\ document' =
       IF goToStepResult(currentStepIndex - 1) = "true"
       THEN loadCurrentStep(clearValidationErrors(document), definition,
                            isLoaded, currentStepIndex', responses)
       ELSE clearValidationErrors(document)
  /\ last' = Called("handlePrevStep", currentStepIndex - 1,
                    goToStepResult(currentStepIndex - 1))
  /\ UNCHANGED <<initialized, submission, submissionData, widgets, reloaded>>

\* handleCircleNavigation(index): click on the pagination circle of a step.
handleCircleNavigation(index) ==
  /\ document.controls /\ hasStepAt(definition, isLoaded, index)
  /\ goToStepEffect(index)
  /\ document' =
       IF goToStepResult(index) = "true"
       THEN loadCurrentStep(clearValidationErrors(document), definition,
                            isLoaded, currentStepIndex', responses)
       ELSE clearValidationErrors(document)
  /\ last' = Called("handleCircleNavigation", index, goToStepResult(index))
  /\ UNCHANGED <<initialized, submission, submissionData, widgets, reloaded>>

\* A submitSurvey() that hands whatever it has to the collaborator.
submitSurveyNeverThrows == FALSE

\* submitSurvey() throws before it calls the collaborator.
submitSurveyThrows == ~isLoaded \/ DOMAIN responses = {}

\* The object submitSurvey() builds and hands to dataService.saveUserData, once:
\* its responses property is surveyState.responses itself, not a copy.
submissionPayload(resp) ==
  [calls |-> 1, aliased |-> TRUE, responses |-> resp, snapshot |-> resp]

\* The payload is dropped once the call of the collaborator has settled.
settledPayload == [NoSubmission EXCEPT !.calls = submissionData.calls]

\* What submitSurvey() answers once the collaborator has: its result object,
\* or, from the catch block, the collaborator's error thrown again.
submitSurveyOutcome(ok) == IF ok THEN "resolved" ELSE "rejected"

\* submitSurvey(), up to the await.  The model follows one call at a time.
submitSurvey ==
  /\ ~submission
  /\ IF submitSurveyThrows
     THEN /\ submissionData' = NoSubmission
          /\ last' = Called("submitSurvey", 0, "rejected")
          /\ UNCHANGED submission
     ELSE /\ submissionData' = submissionPayload(responses)
          /\ submission' = TRUE
          /\ last' = Called("submitSurvey", 0, "pending")
  /\ UNCHANGED <<engine, document, initialized, widgets, reloaded>>

\* dataService.saveUserData settles and submitSurvey() with it.
saveUserDataSettles(ok) ==
  /\ submission
  /\ submission' = FALSE
  /\ submissionData' = settledPayload
  /\ last' = Called("saveUserData", 0, submitSurveyOutcome(ok))
  /\ UNCHANGED <<engine, document, initialized, widgets, reloaded>>

\* The engine with a submission in flight.
NextSubmit ==
  \/ \E k \in 1 .. 2 : loadSurveyDefinition(k)
  \/ \E in \in SaveInputs : saveResponse(in[1], in[2], in[3])
  \/ clearResponses
  \/ submitSurvey
  \/ \E ok \in BOOLEAN : saveUserDataSettles(ok)
  \/ Tick
  \/ Reload

SpecSubmit == Init /\ [][NextSubmit]_vars

\* A handleSubmitSurvey() that leaves the Submit button enabled.
handleSubmitSurveyKeepsEnabled ==
  /\ document.controls /\ ~document.nextShown /\ ~document.submitDisabled
  /\ IF ~validateCurrentStep(definition, isLoaded, currentStepIndex, responses)
     THEN /\ document' = markInvalid(document,
                           currentQuestions(definition, isLoaded, currentStepIndex),
                           responses)
          /\ last' = Called("handleSubmitSurvey", 0, "invalid")
          /\ UNCHANGED submission
     ELSE IF submitSurveyThrows
     THEN /\ document' = [document EXCEPT !.submitDisabled = FALSE, !.message = "error"]
          /\ last' = Called("handleSubmitSurvey", 0, "rejected")
          /\ UNCHANGED submission
     ELSE /\ document' = document
          /\ submission' = TRUE
          /\ last' = Called("handleSubmitSurvey", 0, "pending")
  /\ UNCHANGED <<engine, initialized, submissionData, widgets, reloaded>>

\* handleSubmitSurvey(): click on the Submit button, up to the await.  The page
\* sees of the call whether it is in flight; what the payload holds is
\* followed for the calls of SpecSubmit.
handleSubmitSurvey ==
  /\ document.controls /\ ~document.nextShown /\ ~document.submitDisabled
  /\ IF ~validateCurrentStep(definition, isLoaded, currentStepIndex, responses)
     THEN /\ document' = markInvalid(document,
                           currentQuestions(definition, isLoaded, currentStepIndex),
                           responses)
          /\ last' = Called("handleSubmitSurvey", 0, "invalid")
          /\ UNCHANGED submission
     ELSE IF submitSurveyThrows
     THEN /\ document' = [document EXCEPT !.submitDisabled = FALSE, !.message = "error"]
          /\ last' = Called("handleSubmitSurvey", 0, "rejected")
          /\ UNCHANGED submission
     ELSE /\ document' = [document EXCEPT !.submitDisabled = TRUE]
          /\ submission' = TRUE
          /\ last' = Called("handleSubmitSurvey", 0, "pending")
  /\ UNCHANGED <<engine, initialized, submissionData, widgets, reloaded>>

\* dataService.saveUserData settles: handleSurveySubmit replaces the questions
\* by the thank-you message, or the catch block re-enables the button.
submitSettled(ok) ==
  /\ submission
  /\ submission' = FALSE
  /\ document' =
       IF ok
       THEN [document EXCEPT !.questions = NoElements, !.errors = {},
                             !.rendered = -1, !.message = "success"]
       ELSE [document EXCEPT !.submitDisabled = FALSE, !.message = "error"]
  /\ last' = Called("submitSettled", 0, submitSurveyOutcome(ok))
  /\ UNCHANGED <<engine, initialized, submissionData, widgets, reloaded>>

\* The user answers a displayed question: the renderer's listener saves the
\* value, then, for a question that conditions of the rendered step read,
\* the listener of setupConditionalQuestionListeners refreshes the step.
userAnswers(questionId, value) ==
  /\ document.controls
  /\ questionId \in DOMAIN document.questions
  /\ document.questions[questionId] = "shown"
  /\ saveResponseEffect(questionId, value, NullC)
  /\ LET questions == currentQuestions(definition, isLoaded, document.rendered)
     IN document' =
          IF questionId \in dependentQuestionIds(questions)
          THEN refreshConditionalQuestions(document, questions, responses')
          ELSE document
  /\ last' = Called("userAnswers", 0, IF isLoaded THEN "true" ELSE "false")
  /\ UNCHANGED <<initialized, submission, widgets, reloaded>>

\* resetSurvey()
resetSurvey ==
  /\ initialized
  /\ clearResponsesEffect
  /\ document' = loadCurrentStep(document, definition, isLoaded, currentStepIndex',
                                 responses')
  /\ last' = Called("resetSurvey", 0, "none")
  /\ UNCHANGED <<initialized, submission, widgets, reloaded>>

\* What the user can enter: question id and value.
UserInputs ==
  { <<"Q1", StrV(STR_A)>>, <<"Q1", StrV(STR_YES)>>, <<"Q1", StrV(STR_EMPTY)>>,
    <<"Q2", StrV(STR_A)>>, <<"Q3", StrV(STR_A)>> }

\* The engine driven through the wizard's page; nextStep() stays callable by
\* any importer of surveyData.js.
NextUI ==
  \/ \E k \in DOMAIN Sources : initSurveyWizard(k)
  \/ handleNextStep
  \/ handlePrevStep
  \/ \E index \in 0 .. 2 : handleCircleNavigation(index)
  \/ handleSubmitSurvey
  \/ \E ok \in BOOLEAN : submitSettled(ok)
  \/ \E in \in UserInputs : userAnswers(in[1], in[2])
  \/ resetSurvey
  \/ nextStep
  \/ Tick
  \/ Reload
  \/ StorageChanged

SpecUI == Init /\ [][NextUI]_vars

\* ------------------------------------------------- conditions on their own
\* Questions handed to shouldShowQuestion; their rules read Q1 and Q3.
ConditionalQuestions ==
  << Question("Q2", FALSE, NoConditions),
     Question("Q2", FALSE, Conditions("and", <<>>)),
     Question("Q2", FALSE, Q2Conditions),
     Question("Q2", FALSE, Conditions("and", <<Rule("Q1", "answered", NullV),
                                               Rule("Q3", "equals", StrV(STR_A))>>)),
     Question("Q2", FALSE, Conditions("or", <<Rule("Q1", "equals", StrV(STR_YES)),
                                              Rule("Q3", "answered", NullV)>>)),
     Question("Q2", FALSE, Conditions("AND", <<Rule("Q1", "equals", StrV(STR_YES))>>)),
     Question("Q2", FALSE, Conditions("and", <<Rule("Q1", "answered", NullV)>>)),
     Question("Q2", FALSE, Conditions("and", <<OptionRule("Q1", "topRanked", OPT_2)>>)),
     Question("Q2", FALSE, Conditions("and", <<Rule("Q3", "notEquals", StrV(STR_A))>>)),
     Question("Q2", FALSE, Conditions("and", <<Rule("Q3", "contains", StrV(STR_A))>>)),
     Question("Q2", FALSE, Conditions("and", <<ThresholdRule("Q3", "greaterThan", 1)>>)),
     Question("Q2", FALSE, Conditions("and", <<ThresholdRule("Q3", "lessThan", 9)>>)),
     Question("Q2", FALSE, Conditions("and", <<OptionRule("Q3", "topRanked", OPT_1)>>)),
     Question("Q2", FALSE, Conditions("and", <<OptionRule("Q3", "optionChecked", STR_A)>>)),
     Question("Q2", FALSE, Conditions("and", <<Rule("Q1", "equals", StrV(STR_YES)),
                                               Rule("Q3", "notEquals", StrV(STR_A))>>)) >>

\* The arguments the renderers call saveResponse with: text and radio values,
\* checkbox arrays, the null value of the comment field's blur handler, and
\* the two shapes the multi-value slider renderers save.
ConditionSaveInputs ==
  { <<"Q1", StrV(STR_YES), NullC>>,
    <<"Q1", StrV(STR_NO), NullC>>,
    <<"Q1", StrV(STR_EMPTY), NullC>>,
    <<"Q1", ArrV(<<>>), NullC>>,
    <<"Q1", ArrV(<<STR_A>>), NullC>>,
    <<"Q1", NullV, StrC(STR_C)>>,
    <<"Q1", PosV(<<Entry(OPT_1, 1), Entry(OPT_2, 2)>>), NullC>>,
    <<"Q1", WrappedV(<<Entry(OPT_1, 1), Entry(OPT_2, 2)>>), NullC>>,
    <<"Q1", WrappedV(<<Entry(OPT_1, 2), Entry(OPT_2, 2)>>), NullC>>,
    <<"Q3", StrV(STR_A), NullC>>,
    <<"Q3", StrV(STR_5), NullC>> }

\* A call of shouldShowQuestion(question), as the renderers make it.
callShouldShowQuestion(k) ==
  /\ last' = Called("shouldShowQuestion", k,
                    shouldShowQuestion(ConditionalQuestions[k], responses))
  /\ UNCHANGED <<engine, page, submissionData, widgets, reloaded>>

\* The response store under the renderers' saves, read by the conditions.
NextConditions ==
  \/ loadSurveyDefinition(1)
  \/ \E in \in ConditionSaveInputs : saveResponse(in[1], in[2], in[3])
  \/ clearResponses
  \/ \E k \in DOMAIN ConditionalQuestions : callShouldShowQuestion(k)

SpecConditions == Init /\ [][NextConditions]_vars

\* ------------------------------- questionRenderers.js: a short-text question
\* The most listeners of one kind the page is followed with.
MaxListeners == 4

\* The question rendered by renderShortText.
TextQuestionId == "Q1"

\* What the user types into the text input.
TypedTexts == { STR_A, STR_YES, STR_EMPTY }

\* The text input of the rendered step exists and the conditions read it.
hasDependentInput(doc, questions) ==
  /\ TextQuestionId \in DOMAIN doc.questions
  /\ TextQuestionId \in dependentQuestionIds(questions)

\* setupConditionalQuestionListeners(step, container), called times times: a
\* step without conditional questions gets nothing; otherwise every call adds
\* a blur listener and a debounced input listener to the text input of a
\* question the conditions read (textInput: the step has one), and one
\* 'survey:response-changed' listener to the document.
setupConditionalQuestionListeners(l, textInput, questions, times) ==
  IF dependentQuestionIds(questions) = {} THEN l
  ELSE [document |-> l.document + times,
        blur |-> l.blur + (IF textInput THEN times ELSE 0),
        input |-> l.input + (IF textInput THEN times ELSE 0)]

\* renderShortText(question): input.value is the stored value, if truthy.
renderShortText(resp) ==
  [value |-> IF TextQuestionId \in DOMAIN resp /\ resp[TextQuestionId].value.t = "string"
             THEN resp[TextQuestionId].value.s ELSE STR_EMPTY,
   timeouts |-> 0]

\* initSurveyWizard() for a survey that loads and has steps, with the
\* listeners of the rendered step and its text input.
initSurveyWizardWithText(k) ==
  /\ ~document.controls
  /\ loadResolves(Sources[k]) /\ Sources[k].body.hasSteps
  /\ loadEffect(k)
  /\ document' = loadCurrentStep([document EXCEPT !.controls = TRUE],
                                 definition', isLoaded', currentStepIndex', responses')
  /\ initialized' = TRUE
  /\ LET questions == currentQuestions(definition', isLoaded', currentStepIndex')
     IN listeners' = setupConditionalQuestionListeners(
                       NoListeners, hasDependentInput(document', questions),
                       questions, 1)
  /\ input' = renderShortText(responses')
  /\ last' = Called("initSurveyWizard", k, "true")
  /\ UNCHANGED <<submission, ranking>>

\* An input event on the text input: every debounced listener clears its own
\* timer and sets it again.  Nothing is saved.
typeInto(text) ==
  /\ TextQuestionId \in DOMAIN document.questions
  /\ text # input.value
  /\ input' = [value |-> text, timeouts |-> listeners.input]
  /\ last' = Called("input", 0, "none")
  /\ UNCHANGED <<engine, page, submissionData, listeners, ranking, reloaded>>

\* The timer of one debounced listener fires, 500 ms after the last input
\* event: refreshConditionalQuestions, which ends with
\* setupConditionalQuestionListeners.
debounceFires ==
  /\ input.timeouts > 0
  /\ listeners.document < MaxListeners
  /\ LET questions == currentQuestions(definition, isLoaded, document.rendered)
     IN /\ document' = refreshConditionalQuestions(document, questions, responses)
        /\ listeners' = setupConditionalQuestionListeners(
                          listeners, hasDependentInput(document, questions),
                          questions, 1)
  /\ input' = [input EXCEPT !.timeouts = input.timeouts - 1]
  /\ last' = Called("timeout", 0, "none")
  /\ UNCHANGED <<engine, initialized, submission, submissionData, ranking, reloaded>>

\* The text input loses the focus: the listener of renderShortText saves the
\* value, then every blur listener of setupConditionalQuestionListeners
\* refreshes the step (listeners added during the dispatch do not run in it).
blurInput ==
  /\ TextQuestionId \in DOMAIN document.questions
  /\ listeners.document + listeners.blur <= MaxListeners
  /\ saveResponseEffect(TextQuestionId, StrV(input.value), NullC)
  /\ LET questions == currentQuestions(definition, isLoaded, document.rendered)
     IN /\ document' = IF listeners.blur > 0
                       THEN refreshConditionalQuestions(document, questions, responses')
                       ELSE document
        /\ listeners' = setupConditionalQuestionListeners(
                          listeners, hasDependentInput(document, questions),
                          questions, listeners.blur)
  /\ last' = Called("blur", 0, IF isLoaded THEN "true" ELSE "false")
  /\ UNCHANGED <<initialized, submission, input, ranking, reloaded>>

\* The page with a short-text question that conditions of its step read.
NextListeners ==
  \/ \E k \in 1 .. 2 : initSurveyWizardWithText(k)
  \/ \E text \in TypedTexts : typeInto(text)
  \/ debounceFires
  \/ blurInput
  \/ Tick
  \/ Reload

SpecListeners == Init /\ [][NextListeners]_vars

\* ------------------------------- questionRenderersRank.js: a ranking question
\* The question rendered by the ranking renderer, and its options.
RankQuestionId == "Q1"
RankOptions == << OPT_1, OPT_2, <<"o", "3">> >>

\* The elements of the rank list: item i shows RankOptions[i]; the placeholder
\* is a div of class 'rank-item placeholder' without data attributes.
RankItems == DOMAIN RankOptions
PlaceholderElement == Len(RankOptions) + 1
NoItem == 0

\* An entry {id, rank} of the array saveRanking saves.
RankEntry(id, rank) == [id |-> id, rank |-> rank]
RankV(entries) == [t |-> "ranking", s |-> STR_EMPTY, a |-> <<>>, o |-> entries]

\* rankList.removeChild(x), when x is a child.
removeChild(children, x) == SelectSeq(children, LAMBDA y : y # x)

indexOf(children, x) ==
  IF \E i \in DOMAIN children : children[i] = x
  THEN CHOOSE i \in DOMAIN children : children[i] = x
  ELSE 0

\* rankList.insertBefore(x, ref): x leaves its place, if it has one, and goes
\* in front of ref; at the end when ref is null (0).
insertBefore(children, x, ref) ==
  LET rest == removeChild(children, x)
      at == indexOf(rest, ref)
  IN IF ref = 0 \/ at = 0 THEN rest \o <<x>>
     ELSE SubSeq(rest, 1, at - 1) \o <<x>> \o SubSeq(rest, at, Len(rest))

\* item.nextSibling, 0 for null.
nextSibling(children, x) ==
  IF indexOf(children, x) \in 1 .. Len(children) - 1
  THEN children[indexOf(children, x) + 1] ELSE 0

\* rankList.querySelectorAll('.rank-item:not(.placeholder)')
itemsOf(children) == removeChild(children, PlaceholderElement)

\* items.forEach((item, index) => setRank(item, index))
setRanks(rank, items) ==
  [i \in DOMAIN rank |-> IF indexOf(items, i) # 0 THEN indexOf(items, i) - 1 ELSE rank[i]]

\* The data-rank attribute as parseInt reads it: the number written by
\* setAttribute as a string; null for an element without the attribute.
dataRank(rank, element) ==
  IF element \in DOMAIN rank THEN parseInt(toString(rank[element]))
  ELSE parseInt(<<"n", "u", "l", "l">>)

\* The rankData array of saveRanking: one entry for every element of class
\* rank-item, the placeholder included.
rankData(children, rank) ==
  [i \in DOMAIN children |->
     RankEntry(IF children[i] \in RankItems THEN StrC(RankOptions[children[i]]) ELSE NullC,
               dataRank(rank, children[i]))]

\* rankData.slice().sort((a, b) => a.rank - b.rank): the arrays the sort may
\* give.  With a NaN rank the comparator is not consistent and the order is
\* implementation-defined.
sortedData(data) ==
  LET orders == {f \in [DOMAIN data -> DOMAIN data] :
                   \A i, j \in DOMAIN data : i # j => f[i] # f[j]}
      arranged(f) == [i \in DOMAIN data |-> data[f[i]]]
      consistent == \A i \in DOMAIN data : ~data[i].rank.nan
  IN {arranged(f) : f \in {g \in orders :
        consistent => \A i, j \in DOMAIN data :
                        i < j => /\ data[g[i]].rank.n <= data[g[j]].rank.n
                                 /\ (data[g[i]].rank.n = data[g[j]].rank.n
                                       => g[i] < g[j])}}

\* saveRanking(rankList, questionId), for an array the sort gives.
saveRanking(saved) == saveResponseEffect(RankQuestionId, RankV(saved), NullC)

\* The ranking question as rendered: the options in the order of the stored
\* response, if there is one, with data-rank set to the index.
initializeRankingVisualization(resp) ==
  LET stored == RankQuestionId \in DOMAIN resp /\ resp[RankQuestionId].value.t = "ranking"
      entries == resp[RankQuestionId].value.o
      items == IF stored
               THEN [i \in DOMAIN entries |->
                       CHOOSE k \in RankItems : StrC(RankOptions[k]) = entries[i].id]
               ELSE [k \in RankItems |-> k]
  IN [NoRanking EXCEPT !.children = items,
                       !.rank = [k \in RankItems |-> indexOf(items, k) - 1]]

\* initSurveyWizard() for a survey whose first step has the ranking question.
initSurveyWizardWithRanking(k) ==
  /\ ~document.controls
  /\ loadResolves(Sources[k]) /\ Sources[k].body.hasSteps
  /\ loadEffect(k)
  /\ RankQuestionId \in QuestionIdsOf(
        currentQuestions(definition', isLoaded', currentStepIndex'))
  /\ document' = loadCurrentStep([document EXCEPT !.controls = TRUE],
                                 definition', isLoaded', currentStepIndex', responses')
  /\ initialized' = TRUE
  /\ listeners' = setupConditionalQuestionListeners(
                     NoListeners, FALSE,
                     currentQuestions(definition', isLoaded', currentStepIndex'), 1)
  /\ ranking' = initializeRankingVisualization(responses')
  /\ last' = Called("initSurveyWizard", k, "true")
  /\ UNCHANGED <<submission, input>>

\* dragstart on an item.
dragstart(item) ==
  /\ item \in Range(ranking.children)
  /\ ranking.draggedItem = NoItem
  /\ ranking' = [ranking EXCEPT !.draggedItem = item, !.placeholder = TRUE]
  /\ last' = Called("dragstart", item, "none")
  /\ UNCHANGED <<engine, page, submissionData, listeners, input, reloaded>>

\* dragover on an item other than the dragged one, above (before) or below
\* its midpoint: the placeholder goes in front of the item or behind it.
dragoverItem(item, before) ==
  /\ ranking.draggedItem # NoItem /\ ~ranking.dropped
  /\ item \in RankItems /\ item # ranking.draggedItem
  /\ ranking' =
       [ranking EXCEPT !.children =
          IF before
          THEN insertBefore(ranking.children, PlaceholderElement, item)
          ELSE IF nextSibling(ranking.children, item) = PlaceholderElement
          THEN ranking.children
          ELSE insertBefore(ranking.children, PlaceholderElement,
                            nextSibling(ranking.children, item))]
  /\ last' = Called("dragover", item, "none")
  /\ UNCHANGED <<engine, page, submissionData, listeners, input, reloaded>>

\* dragover on the list below its last item: the placeholder goes to the end.
dragoverList ==
  /\ ranking.draggedItem # NoItem /\ ~ranking.dropped
  /\ ranking' = [ranking EXCEPT !.children =
                   insertBefore(ranking.children, PlaceholderElement, 0)]
  /\ last' = Called("dragover", 0, "none")
  /\ UNCHANGED <<engine, page, submissionData, listeners, input, reloaded>>

\* The drop handler of the list: with the placeholder in the list, the
\* dragged item goes in front of it, the ranks follow the new order and
\* saveRanking runs while the placeholder is still a child.
dropOnRankList(children, rank, item) ==
  LET attached == indexOf(children, PlaceholderElement) # 0
      moved == insertBefore(children, ranking.draggedItem, PlaceholderElement)
      ranked == setRanks(rank, itemsOf(moved))
  IN IF ~attached
     THEN /\ ranking' = [ranking EXCEPT !.children = children, !.rank = rank,
                                        !.dropped = TRUE]
          /\ last' = Called("drop", item, "none")
          /\ UNCHANGED <<engine, submissionData>>
     ELSE /\ ranking' = [ranking EXCEPT !.children = moved, !.rank = ranked,
                                        !.dropped = TRUE]
          /\ \E saved \in sortedData(rankData(moved, ranked)) : saveRanking(saved)
          /\ last' = Called("drop", item, "saved")

\* drop on an item (the dragged one, or one the placeholder lies next to):
\* the handler of the item lists the items, moves the dragged item in front
\* of the placeholder, or to the end without one, and sets the ranks by the
\* order listed before the move; the event then reaches the list's handler.
dropOnItem(item) ==
  /\ ranking.draggedItem # NoItem /\ ~ranking.dropped
  /\ item \in RankItems
  /\ \/ item = ranking.draggedItem
     \/ nextSibling(ranking.children, item) = PlaceholderElement
     \/ nextSibling(ranking.children, PlaceholderElement) = item
  /\ LET items == itemsOf(ranking.children)
         attached == indexOf(ranking.children, PlaceholderElement) # 0
         moved == insertBefore(ranking.children, ranking.draggedItem,
                               IF attached THEN PlaceholderElement ELSE 0)
     IN dropOnRankList(moved, setRanks(ranking.rank, items), item)
  /\ UNCHANGED <<page, listeners, input, reloaded>>

\* drop on the list itself.
dropOnList ==
  /\ ranking.draggedItem # NoItem /\ ~ranking.dropped
  /\ dropOnRankList(ranking.children, ranking.rank, 0)
  /\ UNCHANGED <<page, listeners, input, reloaded>>

\* dragend: the placeholder leaves the list and saveRanking runs.
dragend ==
  /\ ranking.draggedItem # NoItem
  /\ LET children == itemsOf(ranking.children)
     IN /\ ranking' = [ranking EXCEPT !.children = children, !.draggedItem = NoItem,
                                      !.placeholder = FALSE, !.dropped = FALSE]
        /\ \E saved \in sortedData(rankData(children, ranking.rank)) : saveRanking(saved)
  /\ last' = Called("dragend", 0, "saved")
  /\ UNCHANGED <<page, listeners, input, reloaded>>

\* The page with a ranking question; it is reloaded between drags.
NextRank ==
  \/ initSurveyWizardWithRanking(2)
  \/ \E item \in RankItems : dragstart(item)
  \/ \E item \in RankItems, before \in BOOLEAN : dragoverItem(item, before)
  \/ dragoverList
  \/ \E item \in RankItems : dropOnItem(item)
  \/ dropOnList
  \/ dragend
  \/ ranking.draggedItem = NoItem /\ Reload

SpecRank == Init /\ [][NextRank]_vars

\* ================================================================== claims

\* The stored step index is one restoreProgress adopts for definition def.
StoredStepValidFor(def) ==
  /\ localStorage.currentStep.present
  /\ ~parseInt(localStorage.currentStep.text).nan
  /\ def.hasSteps
  /\ parseInt(localStorage.currentStep.text).n \in 0 .. Len(def.steps) - 1

\* The module state of a page in which no definition was loaded yet.
FreshPage == ~isLoaded /\ currentStepIndex = 0 /\ responses = EmptyResponses

\* C1: once a survey is loaded, currentStepIndex is an index of one of its
\* steps, in every reachable state.  Stated for the definitions that have a
\* steps array, so that a violation is a step index out of range and not the
\* missing array of C10.
C1_StepIndexInBounds ==
  (isLoaded /\ definition.hasSteps)
    => currentStepIndex \in 0 .. Len(definition.steps) - 1

\* C2: goToStep(index) returns true exactly when a survey is loaded and
\* 0 <= index < steps.length, and then currentStepIndex is index and both
\* slots are written; in every other case it returns false, does not throw,
\* and leaves currentStepIndex, the responses and both slots as they were.
C2_GoToStepContract ==
  [][ last'.op = "goToStep" =>
        LET index == last'.arg
            inRange == /\ isLoaded
                       /\ definition.hasSteps
                       /\ 0 <= index
                       /\ index < Len(definition.steps)
        IN IF inRange
           THEN /\ last'.result = "true"
                /\ currentStepIndex' = index
                /\ localStorage'.currentStep = TextSlot(toString(index))
                /\ localStorage'.responses = TextSlot(JSONstringify(responses))
                /\ responses' = responses
           ELSE /\ last'.result = "false"
                /\ UNCHANGED <<currentStepIndex, responses, localStorage>> ]_vars

\* A required question of the displayed current step that the conditions
\* show and that has no non-empty response.
VisibleRequiredUnanswered ==
  \E i \in DOMAIN currentQuestions(definition, isLoaded, currentStepIndex) :
    LET question == currentQuestions(definition, isLoaded, currentStepIndex)[i]
    IN /\ question.required
       /\ shouldShowQuestion(question, responses) = "true"
       /\ isUnanswered(responses, question.id)

\* A required question of the current step that the conditions hide and that
\* has no non-empty response.
HiddenRequiredUnanswered ==
  \E i \in DOMAIN currentQuestions(definition, isLoaded, currentStepIndex) :
    LET question == currentQuestions(definition, isLoaded, currentStepIndex)[i]
    IN /\ question.required
       /\ shouldShowQuestion(question, responses) = "false"
       /\ isUnanswered(responses, question.id)

\* C3: when Next or Submit is clicked on the displayed current step while a
\* visible required question has no non-empty response, the step index does
\* not change, no submission starts, and an error is shown on a displayed
\* question.
C3_InvalidStepBlocks ==
  [][ ( /\ last'.op \in {"handleNextStep", "handleSubmitSurvey"}
        /\ document.rendered = currentStepIndex
        /\ VisibleRequiredUnanswered )
      => /\ currentStepIndex' = currentStepIndex
         /\ submission' = submission
         /\ \E q \in document'.errors :
              /\ q \in DOMAIN document'.questions
              /\ document'.questions[q] = "shown" ]_vars

\* C4: when every visible required question of the displayed current step is
\* answered, Next advances and Submit submits, although a hidden required
\* question of that step has no response.
C4_HiddenRequiredSkipped ==
  [][ ( /\ last'.op \in {"handleNextStep", "handleSubmitSurvey"}
        /\ document.rendered = currentStepIndex
        /\ ~VisibleRequiredUnanswered
        /\ HiddenRequiredUnanswered )
      => IF last'.op = "handleNextStep"
         THEN currentStepIndex' = currentStepIndex + 1
         ELSE submission' ]_vars

\* The scenario of C5: the 3-step survey is loaded and the step at index 1,
\* with the single required question Q1, is the current one.
AtStepOfQ1 == isLoaded /\ definition = SurveyA /\ currentStepIndex = 1

\* C5 as stated: with no saved response for Q1, nextStep() at step index 1
\* returns false and the index stays 1; once 'a' is saved for Q1 it returns
\* true and the index becomes 2.
C5_NextStepValidates ==
  [][ (last'.op = "nextStep" /\ AtStepOfQ1) =>
        IF "Q1" \notin DOMAIN responses
        THEN last'.result = "false" /\ currentStepIndex' = 1
        ELSE responses["Q1"].value = StrV(STR_A)
               => (last'.result = "true" /\ currentStepIndex' = 2) ]_vars

\* C5 amended: the Next button, not nextStep(), is what the required question
\* holds back.  With no saved response for Q1 a click on Next at step index 1
\* does not call nextStep() and the index stays 1; once 'a' is saved for Q1
\* the click calls nextStep(), which returns true, and the index becomes 2;
\* nextStep() called directly returns true and moves to 2 in both cases.
C5_NextButtonValidates ==
  [][ /\ (last'.op = "handleNextStep" /\ AtStepOfQ1) =>
           IF "Q1" \notin DOMAIN responses
           THEN last'.result = "invalid" /\ currentStepIndex' = 1
           ELSE responses["Q1"].value = StrV(STR_A)
                  => (last'.result = "true" /\ currentStepIndex' = 2)
      /\ (last'.op = "nextStep" /\ AtStepOfQ1) =>
           (last'.result = "true" /\ currentStepIndex' = 2) ]_vars

\* C5 witness: Next was clicked at step index 1 after 'a' was saved for Q1.
C5_Witness ==
  /\ last = Called("handleNextStep", 2, "true")
  /\ definition = SurveyA
  /\ currentStepIndex = 2
  /\ "Q1" \in DOMAIN responses
  /\ responses["Q1"].value = StrV(STR_A)

C7_PersistRestoreRoundTrip ==
  [][ ( /\ last'.op = "loadSurveyDefinition"
        /\ last'.result = "resolved"
        /\ reloaded.fresh
        /\ reloaded.id = Sources[last'.arg].body.id
        /\ localStorage.currentStep = TextSlot(toString(reloaded.index))
        /\ localStorage.responses = TextSlot(JSONstringify(reloaded.responses)) )
      => /\ responses' = reloaded.responses
         /\ currentStepIndex' =
              IF StoredStepValidFor(Sources[last'.arg].body)
              THEN reloaded.index ELSE 0 ]_vars

\* C8: a load on a fresh page whose stored responses do not parse resolves
\* and leaves the fresh-session state: no responses and step index 0.
C8_CorruptResponsesGiveFreshState ==
  [][ ( /\ last'.op = "loadSurveyDefinition"
        /\ loadResolves(Sources[last'.arg])
        /\ FreshPage
        /\ localStorage.responses.present
        /\ ~localStorage.responses.wellFormed )
      => /\ last'.result = "resolved"
         /\ responses' = EmptyResponses
         /\ currentStepIndex' = 0 ]_vars

\* C9: a load that resolves replaces the definition and leaves the step index
\* at the stored index when that is valid for the new definition and at 0
\* otherwise.  Stated for payloads that have a steps array and for loads at
\* which the step slot holds what the engine last persisted, so that a
\* violation is neither the missing array of C10 nor a foreign write.
C9_LoadResetsStepIndex ==
  [][ ( /\ last'.op = "loadSurveyDefinition"
        /\ last'.result = "resolved"
        /\ Sources[last'.arg].body.hasSteps
        /\ localStorage.currentStep = TextSlot(toString(currentStepIndex)) )
      => /\ definition' = Sources[last'.arg].body
         /\ currentStepIndex' =
              IF StoredStepValidFor(Sources[last'.arg].body)
              THEN parseInt(localStorage.currentStep.text).n ELSE 0 ]_vars

\* C10: a load rejects, and the engine is not marked as loaded with the
\* payload, when the transport answers with a non-success status or the
\* payload has no steps array.
C10_LoadRejectsBadPayload ==
  ( /\ last.op = "loadSurveyDefinition"
    /\ (~Sources[last.arg].ok \/ ~Sources[last.arg].body.hasSteps) )
  => /\ last.result = "rejected"
     /\ ~(isLoaded /\ definition = Sources[last.arg].body)

\* C11: when no survey is loaded, saveResponse returns false and leaves the
\* response map and both storage slots as they were, whatever its arguments.
C11_SaveWithoutSurveyFails ==
  [][ (last'.op = "saveResponse" /\ ~isLoaded)
      => /\ last'.result = "false"
         /\ UNCHANGED <<responses, localStorage>> ]_vars

\* C11 witness: saveResponse returned false on a reloaded page whose storage
\* still holds the responses of the session before.
C11_Witness ==
  /\ last = Called("saveResponse", 0, "false")
  /\ ~isLoaded
  /\ localStorage.responses.present
  /\ localStorage.responses.wellFormed
  /\ localStorage.responses.text # <<>>

\* A comment argument that saveResponse keeps.
NonBlank(comment) == ~comment.isNull /\ trim(comment.s) # STR_EMPTY

\* C12: after saveResponse(id, v, c) on a loaded survey, getResponse(id) is
\* the record of that call: with a non-blank c it is {value: v, comment: c,
\* timestamp}; without a comment argument it is {value: v, timestamp} and
\* carries no comment of an earlier save.
C12_GetResponseReturnsLatestSave ==
  [][ \A in \in SaveInputs :
        (isLoaded /\ saveResponse(in[1], in[2], in[3]))
        => LET got == getResponse(responses', in[1])
           IN /\ ~got.isNull
              /\ got.response.value = in[2]
              /\ got.response.timestamp = now
              /\ NonBlank(in[3]) => /\ got.response.hasComment
                                    /\ got.response.comment = in[3].s
              /\ in[3].isNull => ~got.response.hasComment ]_vars

\* C12 witness: a value was saved for Q1 without a comment argument, later
\* than the response of another question, and Q1 carries no comment.
C12_Witness ==
  /\ last = Called("saveResponse", 0, "true")
  /\ DOMAIN responses = {"Q1", "Q2"}
  /\ responses["Q1"].value = StrV(STR_YES)
  /\ ~responses["Q1"].hasComment
  /\ responses["Q1"].timestamp > responses["Q2"].timestamp

\* C13: no stored response carries an empty or whitespace-only comment.
C13_NoBlankComment ==
  \A q \in DOMAIN responses :
    responses[q].hasComment => trim(responses[q].comment) # STR_EMPTY

\* C13 witness: saveResponse was called with a whitespace-only comment and
\* the stored response has no comment.
C13_Witness ==
  /\ last = Called("saveResponse", 0, "true")
  /\ "Q1" \in DOMAIN responses
  /\ responses["Q1"].value = StrV(STR_EMPTY)
  /\ ~responses["Q1"].hasComment

Asked == ConditionalQuestions[last.arg]

\* C15: shouldShowQuestion gives true for a question without conditions or
\* without rules; with operator and it gives true iff every rule evaluates
\* true, with operator or iff some rule does; with any other operator it
\* gives true.  The operators are the two values of OPERATORS.
C15_OperatorsCombineRules ==
  last.op = "shouldShowQuestion" =>
    LET conditions == Asked.conditions
        isTrue(i) == evaluateCondition(conditions.rules[i], responses) = "true"
    IN IF ~conditions.present \/ conditions.rules = <<>>
       THEN last.result = "true"
       ELSE IF conditions.operator = "and"
       THEN (last.result = "true") <=> (\A i \in DOMAIN conditions.rules : isTrue(i))
       ELSE IF conditions.operator = "or"
       THEN (last.result = "true") <=> (\E i \in DOMAIN conditions.rules : isTrue(i))
       ELSE last.result = "true"

\* The question Q2 of the scenario of C16, its operator spelled 'AND'.
Q2OfScenario ==
  Question("Q2", FALSE, Conditions("AND", <<Rule("Q1", "equals", StrV(STR_YES))>>))

\* C16: for Q2 with conditions {operator: 'AND', rules: [Q1 equals 'yes']},
\* shouldShowQuestion is false while Q1 has no response, true once 'yes' is
\* saved for Q1, and false again once 'no' is saved.
C16_EqualsScenario ==
  (last.op = "shouldShowQuestion" /\ Asked = Q2OfScenario) =>
    /\ "Q1" \notin DOMAIN responses => last.result = "false"
    /\ "Q1" \in DOMAIN responses =>
         /\ responses["Q1"].value = StrV(STR_YES) => last.result = "true"
         /\ responses["Q1"].value = StrV(STR_NO) => last.result = "false"

\* C17: for a question whose only rule is {type: 'answered', questionId: Q1},
\* shouldShowQuestion is false while Q1 has no response, true once a
\* non-empty value is saved, and false again once '' or [] is saved.
C17_AnsweredScenario ==
  ( /\ last.op = "shouldShowQuestion"
    /\ Asked.conditions.present
    /\ Asked.conditions.rules = <<Rule("Q1", "answered", NullV)>> ) =>
    /\ "Q1" \notin DOMAIN responses => last.result = "false"
    /\ "Q1" \in DOMAIN responses =>
         /\ responses["Q1"].value \in {StrV(STR_YES), StrV(STR_NO), ArrV(<<STR_A>>)}
              => last.result = "true"
         /\ responses["Q1"].value \in {StrV(STR_EMPTY), ArrV(<<>>)}
              => last.result = "false"

\* A question counts as answered: its response exists and the value is not
\* null, not an empty array and not a blank string.
CountsAsAnswered(resp, questionId) ==
  /\ questionId \in DOMAIN resp
  /\ resp[questionId].value.t # "null"
  /\ resp[questionId].value.t = "array" => resp[questionId].value.a # <<>>
  /\ resp[questionId].value.t = "string" => trim(resp[questionId].value.s) # STR_EMPTY

\* C18: on every response store, for a step whose only question is required,
\* validateCurrentStep, areAllRequiredQuestionsAnswered and the rule type
\* 'answered' all say answered exactly when the response counts as answered.
C18_AnsweredAgrees ==
  isLoaded =>
    \A i \in DOMAIN definition.steps :
      LET questions == definition.steps[i].questions
      IN (Len(questions) = 1 /\ questions[1].required) =>
           LET answered == CountsAsAnswered(responses, questions[1].id)
           IN /\ validateCurrentStep(definition, isLoaded, i - 1, responses) = answered
              /\ areAllRequiredQuestionsAnswered(definition, isLoaded,
                                                 definition.steps[i].id, responses)
                   = answered
              /\ (evaluateCondition(Rule(questions[1].id, "answered", NullV), responses)
                    = "true") = answered

\* C19: a rule of a type other than 'answered' whose question has no response
\* evaluates to false, and shouldShowQuestion gives false for a question
\* whose and-group contains such a rule.
C19_MissingResponseIsFalse ==
  (last.op = "shouldShowQuestion" /\ Asked.conditions.present) =>
    \A i \in DOMAIN Asked.conditions.rules :
      LET rule == Asked.conditions.rules[i]
      IN (rule.type # "answered" /\ rule.questionId \notin DOMAIN responses) =>
           /\ evaluateCondition(rule, responses) = "false"
           /\ Asked.conditions.operator = "and" => last.result = "false"

\* C20: on a position mapping saved by a multi-value slider renderer, a
\* topRanked rule is true when rule.optionId is the key with the largest
\* position and false when another key has a larger position.
C20_TopRankedOnSavedPositions ==
  ( /\ last.op = "shouldShowQuestion"
    /\ Asked.conditions.present
    /\ Asked.conditions.rules = <<OptionRule("Q1", "topRanked", OPT_2)>>
    /\ "Q1" \in DOMAIN responses
    /\ responses["Q1"].value.t \in {"positions", "wrapped"} ) =>
    LET entries == responses["Q1"].value.o
        mine == {i \in DOMAIN entries : entries[i].key = OPT_2}
        others == DOMAIN entries \ mine
    IN /\ (\E i \in mine : \A j \in others : entries[j].position < entries[i].position)
            => last.result = "true"
       /\ (\A i \in mine : \E j \in others : entries[j].position > entries[i].position)
            => last.result = "false"

\* C21: a step that counts as visited still counts as visited after a
\* prevStep or a goToStep that succeeded: going back does not un-visit the
\* steps reached before.
C21_VisitedIsMonotonic ==
  [][ ( /\ isLoaded
        /\ last'.op \in {"prevStep", "goToStep"}
        /\ last'.result = "true" )
      => \A k \in StepIndexes :
           hasVisitedStep(k, currentStepIndex) => hasVisitedStep(k, currentStepIndex') ]_vars

\* C26: shouldShowQuestion returns a boolean, and does not throw, on every
\* response store that saveResponse calls of the renderers produce and for
\* every rule type.
C26_ShouldShowQuestionIsTotal ==
  last.op = "shouldShowQuestion" => last.result \in {"true", "false"}

\* C27: when the Submit button handler has invoked submitSurvey, every
\* required question of every step that the conditions show has a non-empty
\* response.
C27_SubmitNeedsAllRequired ==
  (last.op = "handleSubmitSurvey" /\ last.result \in {"pending", "rejected"}) =>
    \A i \in DOMAIN definition.steps :
      \A j \in DOMAIN definition.steps[i].questions :
        LET question == definition.steps[i].questions[j]
        IN (question.required /\ shouldShowQuestion(question, responses) = "true")
             => CountsAsAnswered(responses, question.id)

\* C29: on a storage whose setItem may throw, saveResponse, goToStep and
\* clearResponses apply their in-memory change and return their normal
\* result, after a failed write as well as after a successful one.
C29_FailingWriteDoesNotPropagate ==
  [][ /\ (last'.op = "goToStep" /\ goToStepResult(last'.arg) = "true")
         => (currentStepIndex' = last'.arg /\ last'.result = "true"
             /\ responses' = responses)
      /\ last'.op = "clearResponses"
         => (responses' = EmptyResponses /\ currentStepIndex' = 0
             /\ last'.result = "none")
      /\ \A in \in SaveInputs, failAt \in FailingCalls :
           saveResponseSetItemThrows(in[1], in[2], in[3], failAt)
           => /\ getResponse(responses', in[1]).response = NewResponse(in[2], in[3])
              /\ currentStepIndex' = currentStepIndex
              /\ last'.result = "true"
      /\ (last'.op = "saveResponse" /\ isLoaded) => last'.result = "true" ]_vars

\* C29 witness: a saveResponse returned true although the write of the
\* responses failed: local storage does not hold the response map.
C29_Witness ==
  /\ last.op = "saveResponse" /\ last.result = "true"
  /\ "Q1" \in DOMAIN responses
  /\ localStorage.responses # TextSlot(JSONstringify(responses))

\* C22: submitSurvey fails without a call of the collaborator when no survey
\* is loaded or the response map is empty; otherwise it calls the collaborator
\* once, and the collaborator's failure is what the caller gets.
C22_SubmitCallsCollaboratorOnce ==
  [][ /\ last'.op = "submitSurvey"
         => IF ~isLoaded \/ DOMAIN responses = {}
            THEN last'.result = "rejected" /\ submissionData'.calls = 0 /\ ~submission'
            ELSE last'.result = "pending" /\ submissionData'.calls = 1 /\ submission'
      /\ \A ok \in BOOLEAN :
           saveUserDataSettles(ok)
           => /\ submissionData'.calls = 1
              /\ ~submission'
              /\ last'.result = (IF ok THEN "resolved" ELSE "rejected") ]_vars

\* C22 witness: the collaborator, called once, has failed and submitSurvey
\* has rejected.
C22_Witness ==
  /\ last.op = "saveUserData" /\ last.result = "rejected"
  /\ submissionData.calls = 1
  /\ DOMAIN responses # {}

\* C23: while a submission is in flight, the responses of the payload handed
\* to the collaborator are the response map as it was when submitSurvey was
\* called, whatever saveResponse does meanwhile.
C23_PayloadIsSnapshot ==
  submission => submissionData.responses = submissionData.snapshot

\* C25: the Submit button handler starts a submission only when none is in
\* flight and disables the button as it does; a disabled button is enabled
\* again only by the report of a failed submission (or a fresh page), so it
\* stays disabled in flight and after a success.
C25_OneSubmissionInFlight ==
  [][ /\ (last'.op = "handleSubmitSurvey" /\ last'.result = "pending")
         => (~submission /\ submission' /\ document'.submitDisabled)
      /\ submission' => document'.submitDisabled
      /\ (last'.op = "submitSettled" /\ last'.result = "resolved")
         => document'.submitDisabled
      /\ (last'.op = "submitSettled" /\ last'.result = "rejected")
         => (~document'.submitDisabled /\ ~submission')
      /\ (document.submitDisabled /\ ~document'.submitDisabled)
         => \/ last'.op = "submitSettled" /\ last'.result = "rejected"
            \/ last'.op = "reload" ]_vars

\* C25 witness: a submission failed, the button was enabled again and the
\* user has started a second submission.
C25_Witness ==
  /\ last.op = "handleSubmitSurvey" /\ last.result = "pending"
  /\ document.message = "error"
  /\ submission /\ document.submitDisabled

\* C24: once the debounce timers of a burst of input events have fired, the
\* response map and local storage hold the text of the last input event.
C24_DebouncedSaveKeepsLastValue ==
  (last.op = "timeout" /\ input.timeouts = 0)
  => /\ TextQuestionId \in DOMAIN responses
     /\ responses[TextQuestionId].value = StrV(input.value)
     /\ localStorage.responses = TextSlot(JSONstringify(responses))

\* C28: after a response change or a refresh of the rendered step, the
\* document has at most one 'survey:response-changed' listener for the step.
C28_OneDocumentListener ==
  last.op \in {"timeout", "blur"} => listeners.document <= 1

\* C30: every value the ranking renderer has saved has one entry per option,
\* in the order the items are displayed, with ranks 0 .. n-1 in that order,
\* and no entry for the placeholder.
C30_SavedRankingMatchesDisplay ==
  (last.op \in {"drop", "dragend"} /\ last.result = "saved")
  => LET saved == responses[RankQuestionId].value.o
         displayed == itemsOf(ranking.children)
     IN /\ Len(saved) = Len(RankOptions)
        /\ \A i \in DOMAIN saved :
             /\ i \in DOMAIN displayed
             /\ saved[i] = RankEntry(StrC(RankOptions[displayed[i]]),
                                     [nan |-> FALSE, n |-> i - 1])

====
